---- MODULE Spec2Model ----
(***************************************************************************)
(* Model of the highlight store and highlight service of WikiTruth         *)
(* (src/highlight_utils.py), of their callers in src/main.py, and of the   *)
(* two section splitters (src/doc_utils.py, src/wiki_utils.py), and of the *)
(* chunked translation of src/wiki_utils.py.                               *)
(*                                                                         *)
(* The persisted store is the single file data/highlights.json.  Every    *)
(* caller (a Streamlit session thread) reads and rewrites the whole file;  *)
(* the code takes no lock around it.  The specifications are:              *)
(*   Spec        callers interleave at the file-system calls of the code   *)
(*   SpecSeq     one operation at a time, each run to completion           *)
(*   SpecAny     as SpecSeq, started from any file content, including      *)
(*               content that was not written by this program              *)
(*   SpecSubmit  as SpecSeq, clicks on "Mark for Review" only              *)
(*   SpecApply   one call of apply_highlights_to_text, or of the page      *)
(*               showing a text, on a text and a list of highlight records *)
(*   SpecDoc     one call of doc_utils.split_content_into_sections         *)
(*   SpecWiki    one call of wiki_utils.split_content_into_sections        *)
(*   SpecChunks  one call of wiki_utils.split_text_into_chunks             *)
(*   SpecTranslate  one call of wiki_utils.translate_text on a list of     *)
(*               chunks: the main thread, and the workers of its pool      *)
(***************************************************************************)
EXTENDS Integers, Sequences, FiniteSets, TLC

(***************************************************************************)
(* Bounds of the model                                                     *)
(***************************************************************************)
NumCallers == 2
MaxClock == 2
MaxTextLen == 2
MaxApplyLen == 3
MaxHighlights == 2
MaxDocPieces == 7
MaxWikiLines == 4
MaxChunkText == 6
MaxChunks == 3

(***************************************************************************)
(* Strings: a text is a sequence of characters.                            *)
(***************************************************************************)
Alphabet == {"a", "A", " "}
Whitespace == {" ", "\n"}

Strs(n) == UNION {[1..k -> Alphabet] : k \in 0..n}

\* str.strip(): drop leading and trailing whitespace
RECURSIVE LStrip(_)
LStrip(s) ==
    IF s = <<>> THEN s
    ELSE IF Head(s) \in Whitespace THEN LStrip(Tail(s)) ELSE s

RECURSIVE RStrip(_)
RStrip(s) ==
    IF s = <<>> THEN s
    ELSE IF s[Len(s)] \in Whitespace THEN RStrip(SubSeq(s, 1, Len(s) - 1)) ELSE s

Strip(s) == RStrip(LStrip(s))

\* str.lower()
LowerChar(c) == IF c = "A" THEN "a" ELSE c
Lower(s) == [i \in 1..Len(s) |-> LowerChar(s[i])]

IsPrefix(a, b) == Len(a) <= Len(b) /\ SubSeq(b, 1, Len(a)) = a

\* the "in" operator of str: exact, case-sensitive substring
IsSubstring(t, s) ==
    \E i \in 0..(Len(s) - Len(t)) : SubSeq(s, i + 1, i + Len(t)) = t

(***************************************************************************)
(* Inputs                                                                  *)
(***************************************************************************)
Callers == 1..NumCallers
\* article_id = f"{title}_{language}"
ArticleIds == {"A_en", "B_en"}
\* context is "summary" or f"section_{i}"
Contexts == {"summary", "section_0"}
\* texts typed into the text area: one word, in either case, with any
\* whitespace around it, or whitespace only, or nothing
Texts ==
    {t \in Strs(MaxTextLen) :
        Cardinality({i \in DOMAIN t : t[i] \notin Whitespace}) <= 1}
\* displayed texts the candidate is validated against
Sources == {<<"a", " ", "A">>, <<"a", "a">>}

(***************************************************************************)
(* The store file.  kind says what a reader of the file gets:              *)
(*   absent       os.path.exists is False                                  *)
(*   json         a JSON object (what save_highlights writes)              *)
(*   invalid      json.load raises JSONDecodeError (empty, cut off, or     *)
(*                a document followed by the tail of a longer one)         *)
(*   nonmap       valid JSON that is not an object (e.g. [] or null)       *)
(*   undecodable  bytes that are not text in the file's encoding           *)
(* data is the object of a json file, len the length of the file.          *)
(***************************************************************************)
EmptyDict == [i \in {} |-> <<>>]

DictGet(d, k) == IF k \in DOMAIN d THEN d[k] ELSE <<>>

DictSet(d, k, v) == [i \in (DOMAIN d) \cup {k} |-> IF i = k THEN v ELSE d[i]]

TsWidth == 18
IdLen == 4
CtxLen(c) == IF c = "summary" THEN 7 ELSE 9

\* length of json.dump(data, f, indent=2)
RecSize(r) == 70 + Len(r.text) + CtxLen(r.context) + TsWidth

RECURSIVE SumRecs(_)
SumRecs(l) == IF l = <<>> THEN 0 ELSE RecSize(Head(l)) + SumRecs(Tail(l))

ListSize(l) == IF l = <<>> THEN 2 ELSE 6 + SumRecs(l) + 2 * (Len(l) - 1)

RECURSIVE SumItems(_, _)
SumItems(d, ks) ==
    IF ks = {} THEN 0
    ELSE LET k == CHOOSE x \in ks : TRUE
         IN  IdLen + 6 + ListSize(d[k]) + SumItems(d, ks \ {k})

JsonSize(d) ==
    IF DOMAIN d = {} THEN 2
    ELSE 4 + SumItems(d, DOMAIN d) + 2 * (Cardinality(DOMAIN d) - 1)

AbsentFile == [kind |-> "absent", data |-> EmptyDict, len |-> 0]
TruncatedFile == [kind |-> "invalid", data |-> EmptyDict, len |-> 0]
NonMapFile == [kind |-> "nonmap", data |-> EmptyDict, len |-> 2]
UndecodableFile == [kind |-> "undecodable", data |-> EmptyDict, len |-> 1]
JsonFile(d) == [kind |-> "json", data |-> d, len |-> JsonSize(d)]

VARIABLES
    file,       \* content of data/highlights.json
    pc,         \* per caller: where it is inside save_highlight
    pending,    \* per caller: the dict it is about to write
    result,     \* the call that returned last: the message it showed
                \* (st.success, st.error, st.warning) or the exception
                \* that escaped, and whether it wrote the store
    clock,      \* time.time(), counted in calls
    acked,      \* records whose submit has returned success
    lastGet,    \* outcome of the last get_highlights call, and the
                \* clock at which it was made
    applyIn,    \* text and highlight records handed to the page's display
    applyOut,   \* what the display call gave back
    docIn,      \* content handed to doc_utils.split_content_into_sections
    docOut,     \* the sections it returned
    wikiIn,     \* content handed to wiki_utils.split_content_into_sections
    wikiOut,    \* the sections it returned
    chunkIn,    \* text and chunk_size handed to split_text_into_chunks
    chunkOut,   \* the chunks it returned
    translateIn,    \* translate_text: the chunks to translate
    futures,        \* per chunk: where its translate_chunk call is
    chunkResults,   \* chunk_results, by chunk index
    translateOut    \* what translate_text returned

hlVars == <<file, pc, pending, result, clock, acked, lastGet>>
chVars == <<chunkIn, chunkOut>>
trVars == <<translateIn, futures, chunkResults, translateOut>>
fnVars == <<applyIn, applyOut, docIn, docOut, wikiIn, wikiOut, chVars, trVars>>
vars == <<hlVars, fnVars>>

\* no call made
NoCall == [op |-> "none"]

\* split_text_into_chunks is not in the run
ChIdle == chunkIn = NoCall /\ chunkOut = NoCall

\* translate_text is not in the run
TrIdle ==
    /\ translateIn = NoCall /\ translateOut = NoCall
    /\ futures = <<>> /\ chunkResults = <<>>

\* no display or split call is in the run
FnIdle ==
    /\ applyIn = NoCall /\ applyOut = NoCall
    /\ docIn = NoCall /\ docOut = NoCall
    /\ wikiIn = NoCall /\ wikiOut = NoCall
    /\ ChIdle /\ TrIdle

(***************************************************************************)
(* load_highlights and get_highlights                                      *)
(***************************************************************************)
\* load_highlights(): the value returned, or the exception that escapes
LoadHighlights(f) ==
    CASE f.kind = "absent"      -> [status |-> "ok", val |-> EmptyDict, isdict |-> TRUE]
      [] f.kind = "json"        -> [status |-> "ok", val |-> f.data, isdict |-> TRUE]
      [] f.kind = "invalid"     -> [status |-> "ok", val |-> EmptyDict, isdict |-> TRUE]
      [] f.kind = "nonmap"      -> [status |-> "ok", val |-> EmptyDict, isdict |-> FALSE]
      [] f.kind = "undecodable" -> [status |-> "UnicodeDecodeError", val |-> EmptyDict, isdict |-> FALSE]

\* all_highlights.get(article_id, []) on what load_highlights returned
GetFrom(loaded, id) ==
    IF loaded.status # "ok" THEN [status |-> loaded.status, val |-> <<>>]
    ELSE IF ~loaded.isdict THEN [status |-> "AttributeError", val |-> <<>>]
    ELSE [status |-> "ok", val |-> DictGet(loaded.val, id)]

GetHighlights(f, id) == GetFrom(LoadHighlights(f), id)

(***************************************************************************)
(* save_highlight and create_highlight_interface: the pure parts           *)
(***************************************************************************)
\* Validate without the "if highlight_text" test of line 148
ValidateNoEmptyCheck(text, src) ==
    IF ~IsSubstring(text, src) THEN "error" ELSE "success"

\* Validate with a containment test that ignores case
ValidateIgnoreCase(text, src) ==
    IF text = <<>> THEN "warning"
    ELSE IF ~IsSubstring(Lower(text), Lower(src)) THEN "error"
    ELSE "success"

\* create_highlight_interface, lines 148-158: the message the click shows.
\* st.success follows save_highlight unconditionally.
Validate(text, src) ==
    IF text = <<>> THEN "warning"
    ELSE IF ~IsSubstring(text, src) THEN "error"
    ELSE "success"

\* save_highlight, line 67: the early return
SkipsSave(text) == text = <<>> \/ Len(Strip(text)) = 0

\* NewHighlight that stores the text as typed
NewHighlightNoStrip(text, ctx, now) ==
    [text |-> text, context |-> ctx, timestamp |-> now]

\* save_highlight, lines 77-81
NewHighlight(text, ctx, now) ==
    [text |-> Strip(text), context |-> ctx, timestamp |-> now]

\* WithHighlight that starts a new list instead of extending the old one
WithHighlightReplace(all, id, rec) == DictSet(all, id, <<rec>>)

\* WithHighlight that inserts at the front
WithHighlightPrepend(all, id, rec) == DictSet(all, id, <<rec>> \o DictGet(all, id))

\* save_highlight, lines 74, 84, 87
WithHighlight(all, id, rec) == DictSet(all, id, Append(DictGet(all, id), rec))

\* open(HIGHLIGHTS_FILE, 'w'): the file exists and is empty
OpenForWrite(f) == TruncatedFile

\* json.dump into the handle and close: the document is written from
\* offset 0 of the handle.  Bytes another writer has put beyond its end
\* since the handle was opened stay in the file.
WriteAndClose(f, d) ==
    IF JsonSize(d) >= f.len THEN JsonFile(d)
    ELSE [kind |-> "invalid", data |-> EmptyDict, len |-> f.len]

\* save_highlights(highlights_data) run without interruption
SaveHighlights(f, d) == WriteAndClose(OpenForWrite(f), d)

NoPending ==
    [id |-> "", text |-> <<>>, context |-> "", rec |-> <<>>, dict |-> EmptyDict]

AllIdle == \A p \in Callers : pc[p] = "idle"

\* calls that have passed line 67 and not yet read the clock
Starting == {q \in Callers : pc[q] = "load"}

(***************************************************************************)
(* Initial states                                                          *)
(***************************************************************************)
Shown(msg, w) == [shown |-> msg, wrote |-> w]

HlInit ==
    /\ pc = [p \in Callers |-> "idle"]
    /\ pending = [p \in Callers |-> NoPending]
    /\ result = Shown("none", FALSE)
    /\ clock = 0
    /\ acked = {}
    /\ lastGet = [id |-> "", at |-> 0, status |-> "none", val |-> <<>>]

InitRest == HlInit /\ FnIdle

\* first start (no file), an empty store, or a file left empty by a
\* writer that was stopped between open and close
Init ==
    /\ file \in {AbsentFile, JsonFile(EmptyDict), TruncatedFile}
    /\ InitRest

\* any content of the file
InitAny ==
    /\ file \in {AbsentFile, JsonFile(EmptyDict), TruncatedFile,
                 NonMapFile, UndecodableFile}
    /\ InitRest

(***************************************************************************)
(* Interleaved callers: one action per step between file-system calls      *)
(***************************************************************************)
\* click on "Mark for Review": lines 146-158 and save_highlight up to its
\* first file access
Click(p, id, text, ctx, src) ==
    /\ pc[p] = "idle"
    /\ IF Validate(text, src) = "success" /\ ~SkipsSave(text)
       THEN /\ clock + Cardinality(Starting) < MaxClock
            /\ pc' = [pc EXCEPT ![p] = "load"]
            /\ pending' = [pending EXCEPT ![p] =
                   [NoPending EXCEPT !.id = id, !.text = text, !.context = ctx]]
            /\ UNCHANGED result
       ELSE /\ result' = Shown(Validate(text, src), FALSE)
            /\ UNCHANGED <<pc, pending>>
    /\ UNCHANGED <<file, clock, acked, lastGet>>
    /\ UNCHANGED fnVars

\* save_highlight lines 71-87: read the file, build the new dict
SaveLoad(p) ==
    /\ pc[p] = "load"
    /\ LET g == GetHighlights(file, pending[p].id)
           loaded == LoadHighlights(file)
           rec == NewHighlight(pending[p].text, pending[p].context, clock + 1)
       IN  IF g.status = "ok"
           THEN /\ pc' = [pc EXCEPT ![p] = "open"]
                /\ pending' = [pending EXCEPT ![p].rec = rec,
                       ![p].dict = WithHighlight(loaded.val, pending[p].id, rec)]
                /\ clock' = clock + 1
                /\ UNCHANGED result
           ELSE /\ pc' = [pc EXCEPT ![p] = "idle"]
                /\ pending' = [pending EXCEPT ![p] = NoPending]
                /\ result' = Shown(g.status, FALSE)
                /\ UNCHANGED clock
    /\ UNCHANGED <<file, acked, lastGet>>
    /\ UNCHANGED fnVars

\* save_highlights line 42: open for writing
SaveOpen(p) ==
    /\ pc[p] = "open"
    /\ file' = OpenForWrite(file)
    /\ pc' = [pc EXCEPT ![p] = "write"]
    /\ UNCHANGED <<pending, result, clock, acked, lastGet>>
    /\ UNCHANGED fnVars

\* save_highlights line 43 and the end of the with block, then line 152
SaveWrite(p) ==
    /\ pc[p] = "write"
    /\ file' = WriteAndClose(file, pending[p].dict)
    /\ pc' = [pc EXCEPT ![p] = "idle"]
    /\ result' = Shown("success", TRUE)
    /\ acked' = acked \cup {[id |-> pending[p].id, rec |-> pending[p].rec]}
    /\ pending' = [pending EXCEPT ![p] = NoPending]
    /\ UNCHANGED <<clock, lastGet>>
    /\ UNCHANGED fnVars

\* get_highlights(article_id) as called by the page (main.py 338, 429, 452)
Get(id) ==
    /\ lastGet' = [id |-> id, at |-> clock,
                   status |-> GetHighlights(file, id).status,
                   val |-> GetHighlights(file, id).val]
    /\ UNCHANGED <<file, pc, pending, result, clock, acked>>
    /\ UNCHANGED fnVars

Next ==
    \/ \E p \in Callers, id \in ArticleIds, text \in Texts,
          ctx \in Contexts, src \in Sources : Click(p, id, text, ctx, src)
    \/ \E p \in Callers : SaveLoad(p)
    \/ \E p \in Callers : SaveOpen(p)
    \/ \E p \in Callers : SaveWrite(p)

Spec == Init /\ [][Next]_vars

(***************************************************************************)
(* One operation at a time                                                 *)
(***************************************************************************)
\* save_highlight(article_id, text_to_highlight, context), whole call:
\* how it ends ("skipped" by line 68, "saved", or the exception raised) ...
SaveStatus(f, id, text) ==
    IF SkipsSave(text) THEN "skipped"
    ELSE IF GetHighlights(f, id).status # "ok" THEN GetHighlights(f, id).status
    ELSE "saved"

\* ... and the file it leaves
SaveHighlight(f, id, text, ctx, now) ==
    IF SaveStatus(f, id, text) # "saved" THEN f
    ELSE SaveHighlights(f, WithHighlight(LoadHighlights(f).val, id,
                                         NewHighlight(text, ctx, now)))

\* effect of a whole save_highlight call on the model's state; shown is
\* what the caller displays when the call returns
DoSave(id, text, ctx, shown) ==
    LET status == SaveStatus(file, id, text)
    IN  /\ status = "saved" => clock < MaxClock
        /\ clock' = IF status = "saved" THEN clock + 1 ELSE clock
        /\ result' = Shown(IF status \in {"saved", "skipped"} THEN shown ELSE status,
                           status = "saved")
        /\ acked' = IF status = "saved"
                    THEN acked \cup {[id |-> id,
                                      rec |-> NewHighlight(text, ctx, clock + 1)]}
                    ELSE acked
        /\ file' = SaveHighlight(file, id, text, ctx, clock + 1)

\* a whole click on "Mark for Review"
Submit(id, text, ctx, src) ==
    /\ AllIdle
    /\ IF Validate(text, src) = "success"
       THEN DoSave(id, text, ctx, "success")
       ELSE /\ result' = Shown(Validate(text, src), FALSE)
            /\ UNCHANGED <<file, clock, acked>>
    /\ UNCHANGED <<pc, pending, lastGet>>
    /\ UNCHANGED fnVars

\* a whole direct call of save_highlight
CallSaveHighlight(id, text, ctx) ==
    /\ AllIdle
    /\ DoSave(id, text, ctx, "returned")
    /\ UNCHANGED <<pc, pending, lastGet>>
    /\ UNCHANGED fnVars

NextSeq ==
    \/ \E id \in ArticleIds, text \in Texts,
          ctx \in Contexts, src \in Sources : Submit(id, text, ctx, src)
    \/ \E id \in ArticleIds, text \in Texts,
          ctx \in Contexts : CallSaveHighlight(id, text, ctx)
    \/ \E id \in ArticleIds : Get(id)

SpecSeq == Init /\ [][NextSeq]_vars

SpecAny == InitAny /\ [][NextSeq]_vars

\* whole clicks only, one after the other
NextSubmit ==
    \E id \in ArticleIds, text \in Texts,
       ctx \in Contexts, src \in Sources : Submit(id, text, ctx, src)

SpecSubmit == Init /\ [][NextSubmit]_vars

(***************************************************************************)
(* apply_highlights_to_text: the text shown with its highlights marked     *)
(***************************************************************************)
\* The mark delimiters the replacement puts around a match.  Each is one
\* element of the text: no highlight text below has a character that can
\* match inside a delimiter ("a" stands between "m" and "r" there).
OpenMark == "<mark>"
CloseMark == "</mark>"
\* chr(7), what the replacement template makes of backslash-a
Bel == "BEL"

\* characters of the displayed text
TextAlphabet == {"a", "A", " ", "\\"}
\* [a-zA-Z0-9] of the lookbehind and lookahead, line 115
Alnum == {"a", "A", "g"}
AsciiLetters == {"a", "A", "g"}

TextsUpTo(n) == UNION {[1..k -> TextAlphabet] : k \in 0..n}

\* sorted(..., key=len, reverse=True), line 107: longest first, texts of
\* one length in the order of the records
RECURSIVE InsertByLen(_, _)
InsertByLen(sorted, x) ==
    IF sorted = <<>> THEN <<x>>
    ELSE IF Len(Head(sorted)) < Len(x) THEN <<x>> \o sorted
    ELSE <<Head(sorted)>> \o InsertByLen(Tail(sorted), x)

RECURSIVE SortedLongestFirst(_)
SortedLongestFirst(ts) ==
    IF ts = <<>> THEN <<>>
    ELSE InsertByLen(SortedLongestFirst(SubSeq(ts, 1, Len(ts) - 1)), ts[Len(ts)])

\* the pattern of line 115 without its lookbehind
MatchesAtNoLookbehind(s, h, i) ==
    /\ i + Len(h) - 1 <= Len(s)
    /\ \A k \in 1..Len(h) : LowerChar(s[i + k - 1]) = LowerChar(h[k])
    /\ (i + Len(h) > Len(s) \/ s[i + Len(h)] \notin Alnum)

\* lines 112-115 with re.IGNORECASE: the escaped highlight text matches at
\* position i of s, no letter or digit stands before it and none after it
MatchesAt(s, h, i) ==
    /\ i + Len(h) - 1 <= Len(s)
    /\ \A k \in 1..Len(h) : LowerChar(s[i + k - 1]) = LowerChar(h[k])
    /\ (i = 1 \/ s[i - 1] \notin Alnum)
    /\ (i + Len(h) > Len(s) \/ s[i + Len(h)] \notin Alnum)

\* a substitution whose pattern takes the character before and the
\* character after the highlight text into the match
RECURSIVE SubFromConsuming(_, _, _, _)
SubFromConsuming(s, h, repl, i) ==
    IF i > Len(s) THEN <<>>
    ELSE IF /\ i + Len(h) + 1 <= Len(s)
            /\ s[i] \notin Alnum
            /\ s[i + Len(h) + 1] \notin Alnum
            /\ \A k \in 1..Len(h) : LowerChar(s[i + k]) = LowerChar(h[k])
         THEN repl \o SubFromConsuming(s, h, repl, i + Len(h) + 2)
         ELSE <<s[i]>> \o SubFromConsuming(s, h, repl, i + 1)

\* re.sub, lines 117-122: every match from position i on, left to right and
\* not overlapping, replaced by repl (h is not empty)
RECURSIVE SubFrom(_, _, _, _)
SubFrom(s, h, repl, i) ==
    IF i > Len(s) THEN <<>>
    ELSE IF MatchesAt(s, h, i) THEN repl \o SubFrom(s, h, repl, i + Len(h))
    ELSE <<s[i]>> \o SubFrom(s, h, repl, i + 1)

\* str.replace, line 125: every exact occurrence from position i on
RECURSIVE ReplaceFrom(_, _, _, _)
ReplaceFrom(s, h, repl, i) ==
    IF i > Len(s) THEN <<>>
    ELSE IF i + Len(h) - 1 <= Len(s) /\ SubSeq(s, i, i + Len(h) - 1) = h
         THEN repl \o ReplaceFrom(s, h, repl, i + Len(h))
         ELSE <<s[i]>> \o ReplaceFrom(s, h, repl, i + 1)

\* position of the first ">" of h at or after i, 0 if there is none
RECURSIVE FindClose(_, _)
FindClose(h, i) ==
    IF i > Len(h) THEN 0
    ELSE IF h[i] = ">" THEN i ELSE FindClose(h, i + 1)

\* str.isidentifier() on the characters used here
IsIdentifier(name) ==
    name # <<>> /\ \A k \in 1..Len(name) : name[k] \in AsciiLetters

Parsed(out) == [status |-> "ok", out |-> out]
ParseFails(e) == [status |-> e, out |-> <<>>]
ParsedThen(c, rest) ==
    IF rest.status = "ok" THEN Parsed(c \o rest.out) ELSE rest

\* What re.sub makes of the highlight text inside the replacement string
\* f"<mark>{highlight_text}</mark>" of line 119: the string is a template,
\* its backslash sequences are expanded before any match is looked for.
\* The result is the expanded text, re.error, or the IndexError of an
\* unknown group name.
RECURSIVE TemplateFrom(_, _)
TemplateFrom(h, i) ==
    IF i > Len(h) THEN Parsed(<<>>)
    ELSE IF h[i] # "\\" THEN ParsedThen(<<h[i]>>, TemplateFrom(h, i + 1))
    \* a backslash ending the text stands before the "<" of "</mark>"
    ELSE IF i = Len(h) THEN Parsed(<<"\\">>)
    ELSE LET c == h[i + 1]
             close == FindClose(h, i + 3)
         IN  CASE c = "\\" -> ParsedThen(<<"\\">>, TemplateFrom(h, i + 2))
               [] c = "a" -> ParsedThen(<<Bel>>, TemplateFrom(h, i + 2))
               [] c = "g" ->
                    \* \g<name>; a name that is not closed inside the text
                    \* runs into "</mark>" and is no group name
                    IF i + 2 > Len(h) \/ h[i + 2] # "<" \/ close = 0
                    THEN ParseFails("re.error")
                    ELSE IF IsIdentifier(SubSeq(h, i + 3, close - 1))
                    THEN ParseFails("IndexError")
                    ELSE ParseFails("re.error")
               [] c \in AsciiLetters \ {"a", "g"} -> ParseFails("re.error")
               [] OTHER -> ParsedThen(<<"\\", c>>, TemplateFrom(h, i + 2))

Template(h) == TemplateFrom(h, 1)

Marked(content) == <<OpenMark>> \o content \o <<CloseMark>>

Returned(t) == [status |-> "ok", text |-> t]
Raised(e) == [status |-> e, text |-> <<>>]

\* one turn of the loop of lines 110-125 on the text so far
ApplyOne(s, h) ==
    CASE Template(h).status = "ok" ->
            Returned(SubFrom(s, h, Marked(Template(h).out), 1))
      [] Template(h).status = "re.error" ->
            Returned(ReplaceFrom(s, h, Marked(h), 1))
      [] OTHER -> Raised(Template(h).status)

\* the loop of lines 110-125 over the sorted texts
RECURSIVE ApplyAll(_, _)
ApplyAll(s, hs) ==
    IF hs = <<>> THEN Returned(s)
    ELSE IF ApplyOne(s, Head(hs)).status # "ok" THEN ApplyOne(s, Head(hs))
    ELSE ApplyAll(ApplyOne(s, Head(hs)).text, Tail(hs))

TextsOf(highlights) == [i \in 1..Len(highlights) |-> highlights[i].text]

\* apply_highlights_to_text whose early return gives back nothing
ApplyHighlightsToTextDropsText(text, highlights) ==
    IF text = <<>> \/ highlights = <<>> THEN Returned(<<>>)
    ELSE ApplyAll(text, SortedLongestFirst(TextsOf(highlights)))

\* apply_highlights_to_text(text, highlights), lines 92-127
ApplyHighlightsToText(text, highlights) ==
    IF text = <<>> \/ highlights = <<>> THEN Returned(text)
    ELSE ApplyAll(text, SortedLongestFirst(TextsOf(highlights)))

\* main.py 350-353, 362-366, 431-434, 454-457: the text the page shows
HighlightedText(text, highlights, show_reviews) ==
    IF show_reviews /\ highlights # <<>>
    THEN ApplyHighlightsToText(text, highlights)
    ELSE Returned(text)

\* highlight texts of the records handed to the display: a plain word in
\* two spellings, a phrase that contains the word, and texts with the
\* backslash sequences a replacement template knows (\a), rejects (\A) or
\* takes for a group name (\g<a>)
HighlightTexts ==
    { <<"a">>, <<"a", " ", "A">>, <<"\\", "a">>, <<"\\", "A">>,
      <<"\\", "g", "<", "a", ">">> }

\* a record as save_highlight stores it (lines 77-81)
HighlightRecord(t) == [text |-> t, context |-> "summary", timestamp |-> 1]

HighlightLists ==
    UNION {[1..k -> {HighlightRecord(t) : t \in HighlightTexts}] :
              k \in 0..MaxHighlights}

ApplyInputs ==
    [op : {"call"}, text : TextsUpTo(MaxApplyLen), highlights : HighlightLists]

InitApply ==
    /\ file = AbsentFile
    /\ HlInit
    /\ applyIn \in ApplyInputs
    /\ applyOut = NoCall
    /\ docIn = NoCall /\ docOut = NoCall
    /\ wikiIn = NoCall /\ wikiOut = NoCall
    /\ ChIdle /\ TrIdle

\* a call of apply_highlights_to_text(text, highlights)
Apply ==
    /\ applyOut = NoCall
    /\ applyOut' = [op |-> "apply",
                    status |-> ApplyHighlightsToText(applyIn.text, applyIn.highlights).status,
                    text |-> ApplyHighlightsToText(applyIn.text, applyIn.highlights).text]
    /\ UNCHANGED <<hlVars, applyIn, docIn, docOut, wikiIn, wikiOut, chVars, trVars>>

\* the page showing the text, reviews switched on or off
Show(show_reviews) ==
    /\ applyOut = NoCall
    /\ applyOut' = [op |-> IF show_reviews THEN "show" ELSE "show_plain",
                    status |-> HighlightedText(applyIn.text, applyIn.highlights, show_reviews).status,
                    text |-> HighlightedText(applyIn.text, applyIn.highlights, show_reviews).text]
    /\ UNCHANGED <<hlVars, applyIn, docIn, docOut, wikiIn, wikiOut, chVars, trVars>>

NextApply ==
    \/ Apply
    \/ \E show_reviews \in BOOLEAN : Show(show_reviews)

SpecApply == InitApply /\ [][NextApply]_vars

(***************************************************************************)
(* Properties                                                              *)
(***************************************************************************)
\* what load(id) gives in the current state
Stored(f, id) == GetHighlights(f, id).val

StoredTexts(f, id) == {Stored(f, id)[i].text : i \in 1..Len(Stored(f, id))}

Populated(f) == \E id \in ArticleIds : Stored(f, id) # <<>>

\* the inputs <<text, source>> of submit whose text is non-empty after
\* trimming and occurs in the source
Accepted ==
    {in \in Texts \X Sources : Strip(in[1]) # <<>> /\ IsSubstring(in[1], in[2])}

\* the inputs <<text, source>> of submit whose text does not occur in the
\* source
NotFound == {in \in Texts \X Sources : ~IsSubstring(in[1], in[2])}

\* C1: when all callers have returned from submits of distinct texts for
\* one article, load of that article contains every submitted text.
C1_NoLostWrites ==
    (/\ AllIdle
     /\ \A a, b \in acked : a.id = b.id
     /\ \A a, b \in acked : a # b => a.rec.text # b.rec.text)
        => \A a \in acked : a.rec.text \in StoredTexts(file, a.id)

\* C2: a submit of a text that is non-empty after trimming and occurs in
\* the source shows success, and load(id) right after it is load(id) before
\* it with one record appended, whose text is the trimmed text and whose
\* context is the context passed.
C2_SubmitAppendsOne ==
    [][\A id \in ArticleIds, ctx \in Contexts, in \in Accepted :
          LET text == in[1]
              src == in[2]
          IN  Submit(id, text, ctx, src)
              => /\ result'.shown = "success"
                 /\ GetHighlights(file', id).status = "ok"
                 /\ Len(Stored(file', id)) = Len(Stored(file, id)) + 1
                 /\ SubSeq(Stored(file', id), 1, Len(Stored(file, id))) = Stored(file, id)
                 /\ Stored(file', id)[Len(Stored(file', id))].text = Strip(text)
                 /\ Stored(file', id)[Len(Stored(file', id))].context = ctx]_vars

C2_Witness ==
    /\ result = Shown("success", TRUE)
    /\ \E id \in ArticleIds :
          /\ Len(Stored(file, id)) = 2
          /\ Stored(file, id)[1].context # Stored(file, id)[2].context

\* C3: a record whose submit has returned success is in the sequence every
\* later load of its article is computed from.
C3_AckedVisible ==
    \A a \in acked :
        /\ GetHighlights(file, a.id).status = "ok"
        /\ \E i \in 1..Len(Stored(file, a.id)) : Stored(file, a.id)[i] = a.rec

\* C4: a submit of the empty text is rejected and leaves the file as it is,
\* whatever the file holds.
C4_EmptyRejected ==
    [][\A id \in ArticleIds, ctx \in Contexts, src \in Sources :
          Submit(id, <<>>, ctx, src)
              => /\ result' = Shown("warning", FALSE)
                 /\ file' = file]_vars

C4_Witness ==
    /\ result = Shown("warning", FALSE)
    /\ Populated(file)

\* C5: submit shows success only when it has appended a record.
C5_SuccessMeansAppended == result.shown = "success" => result.wrote

\* C6: a submit of a text that is not an exact, case-sensitive substring of
\* the source is rejected as not found and leaves the file as it is.
C6_NotFoundRejected ==
    [][\A id \in ArticleIds, ctx \in Contexts, in \in NotFound :
          Submit(id, in[1], ctx, in[2])
              => /\ result' = Shown("error", FALSE)
                 /\ file' = file]_vars

C6_Witness ==
    /\ result = Shown("error", FALSE)
    /\ Populated(file)
    /\ clock < MaxClock

\* C7: load returns the empty sequence, and does not raise, when the file
\* is absent or cannot be read as the mapping, or the article has no records.
C7_LoadDegradesToEmpty ==
    [][\A id \in ArticleIds :
          (Get(id) /\ (file.kind # "json" \/ id \notin DOMAIN file.data))
              => lastGet'.status = "ok" /\ lastGet'.val = <<>>]_vars

\* C8: every step leaves the file as it is or replaces it by the store it
\* held with one record appended.
C8_AllOrNothing ==
    [][\/ file' = file
       \/ /\ file'.kind = "json"
          /\ \E id \in DOMAIN file'.data :
                /\ file'.data[id] # <<>>
                /\ file'.data =
                       WithHighlight(LoadHighlights(file).val, id,
                                     file'.data[id][Len(file'.data[id])])]_vars

\* C9: over completed operations the sequence of every article only grows
\* at its end: what load returned stays, at the same positions.
C9_AppendOnly ==
    [][/\ \A id \in ArticleIds : IsPrefix(Stored(file, id), Stored(file', id))
       /\ \A id \in ArticleIds :
             (Get(id) /\ lastGet.id = id /\ lastGet.status = "ok")
                 => lastGet'.status = "ok" /\ IsPrefix(lastGet.val, lastGet'.val)]_vars

C9_Witness ==
    /\ lastGet.status = "ok"
    /\ lastGet.val # <<>>
    /\ Len(Stored(file, lastGet.id)) > Len(lastGet.val)

\* C11: a call of load(id) returns a sequence, and as long as no append
\* has been made since, another call of load(id) returns the same sequence,
\* whatever the store file holds (absent, corrupt, empty or populated).
C11_LoadIdempotent ==
    (lastGet.status # "none" /\ lastGet.at = clock)
        => /\ lastGet.status = "ok"
           /\ GetHighlights(file, lastGet.id).status = "ok"
           /\ GetHighlights(file, lastGet.id).val = lastGet.val

\* C10: every persisted record has a text that is non-empty, has a
\* character that is not whitespace, and equals its own trimmed form.
C10_TextTrimmedNonEmpty ==
    file.kind = "json" =>
        \A id \in DOMAIN file.data :
            \A i \in 1..Len(file.data[id]) :
                LET t == file.data[id][i].text
                IN  /\ t # <<>>
                    /\ \E k \in 1..Len(t) : t[k] \notin Whitespace
                    /\ Strip(t) = t

C10_Witness ==
    /\ result = Shown("returned", TRUE)
    /\ file.kind = "json"
    /\ \E id \in DOMAIN file.data : Len(file.data[id]) = 2

(***************************************************************************)
(* doc_utils.split_content_into_sections: split at "== Title ==" headings  *)
(***************************************************************************)
\* title of the leading section (None in the code): no text has this element
None == <<"None">>

LineBreak == "\n"

\* article content is made of these pieces; "=" comes in pairs
DocPieces == {<<"a">>, <<" ">>, <<LineBreak>>, <<"=", "=">>}

RECURSIVE Flatten(_)
Flatten(ps) == IF ps = <<>> THEN <<>> ELSE Head(ps) \o Flatten(Tail(ps))

DocContents ==
    {Flatten(ps) : ps \in UNION {[1..k -> DocPieces] : k \in 0..MaxDocPieces}}

\* how many characters of s from position p on are in set, up to the first
\* that is not
RECURSIVE Run(_, _, _)
Run(s, p, set) ==
    IF p > Len(s) \/ s[p] \notin set THEN 0 ELSE 1 + Run(s, p + 1, set)

DocAlphabet == {"a", " ", LineBreak, "="}
IsDelimiter == {"="}
\* \s
IsSpace == Whitespace
\* "."
IsDot == DocAlphabet \ {LineBreak}

\* ^ under re.MULTILINE
AtLineStart(s, p) == p = 1 \/ s[p - 1] = LineBreak

\* The ways r'^(={2,6})\s*(.*?)\s*\1' matches at position p of s: k
\* delimiters, s1 whitespace, a title of t characters, s2 whitespace, and
\* the k delimiters again
HeadingMatches(s, p) ==
    UNION {UNION {UNION {
        {[k |-> k, s1 |-> s1, t |-> t, s2 |-> s2] :
            s2 \in {x \in 0..Run(s, p + k + s1 + t, IsSpace) :
                       k <= Run(s, p + k + s1 + t + x, IsDelimiter)}} :
        t \in 0..Run(s, p + k + s1, IsDot)} :
        s1 \in 0..Run(s, p + k, IsSpace)} :
        k \in {x \in 2..6 : x <= Run(s, p, IsDelimiter)}}

\* the order in which the regex engine tries them: {2,6} and \s* take as
\* much as they can, .*? as little as it can
TriedBefore(m, n) ==
    \/ m.k > n.k
    \/ m.k = n.k /\ m.s1 > n.s1
    \/ m.k = n.k /\ m.s1 = n.s1 /\ m.t < n.t
    \/ m.k = n.k /\ m.s1 = n.s1 /\ m.t = n.t /\ m.s2 >= n.s2

\* heading_pattern matched at p: its position, its end (first position
\* after it), group 1's length and group 2
HeadingAt(s, p) ==
    LET m == CHOOSE m \in HeadingMatches(s, p) :
                 \A n \in HeadingMatches(s, p) : TriedBefore(m, n)
    IN  [pos |-> p,
         end |-> p + m.k + m.s1 + m.t + m.s2 + m.k,
         level |-> m.k,
         title |-> SubSeq(s, p + m.k + m.s1, p + m.k + m.s1 + m.t - 1)]

IsHeadingAt(s, p) ==
    p <= Len(s) /\ AtLineStart(s, p) /\ HeadingMatches(s, p) # {}

\* heading_pattern.finditer(content), lines 96-103: the matches from
\* position p on, left to right, not overlapping
RECURSIVE HeadingsFrom(_, _)
HeadingsFrom(s, p) ==
    IF p > Len(s) THEN <<>>
    ELSE IF IsHeadingAt(s, p)
         THEN <<HeadingAt(s, p)>> \o HeadingsFrom(s, HeadingAt(s, p).end)
         ELSE HeadingsFrom(s, p + 1)

Headings(s) == HeadingsFrom(s, 1)

\* heading_pattern.search(s): end of the first match in s, 0 if none
RECURSIVE SearchEndFrom(_, _)
SearchEndFrom(s, p) ==
    IF p > Len(s) THEN 0
    ELSE IF IsHeadingAt(s, p) THEN HeadingAt(s, p).end
    ELSE SearchEndFrom(s, p + 1)

\* content[a:b] of Python for the positions a, b counted from 1
Slice(s, a, b) == SubSeq(s, a, b - 1)

\* a section content that starts at the heading, not after it
SectionContentWithHeading(s, pos, end_pos) ==
    Strip(Slice(s, pos, end_pos))

\* lines 126-136: the content of the section whose heading starts at pos,
\* the next heading (or the end of the text) being at end_pos
SectionContent(s, pos, end_pos) ==
    IF SearchEndFrom(Slice(s, pos, end_pos), 1) # 0
    THEN Strip(Slice(s, pos + SearchEndFrom(Slice(s, pos, end_pos), 1) - 1, end_pos))
    ELSE Strip(Slice(s, pos, end_pos))

Section(title, content, level) ==
    [title |-> title, content |-> content, level |-> level]

\* lines 111-117: the text before the first heading
IntroSections(s, hs) ==
    IF hs # <<>> /\ Strip(Slice(s, 1, hs[1].pos)) # <<>>
    THEN <<Section(None, Strip(Slice(s, 1, hs[1].pos)), 0)>>
    ELSE <<>>

\* lines 120-142: one section per heading
HeadingSections(s, hs) ==
    [i \in 1..Len(hs) |->
        Section(hs[i].title,
                SectionContent(s, hs[i].pos,
                               IF i < Len(hs) THEN hs[i + 1].pos ELSE Len(s) + 1),
                hs[i].level \div 2)]

\* split_content_into_sections(content), lines 81-151
SplitContentIntoSections(s) ==
    LET sections == IntroSections(s, Headings(s)) \o HeadingSections(s, Headings(s))
    IN  IF sections = <<>> THEN <<Section(None, s, 0)>> ELSE sections

InitDoc ==
    /\ file = AbsentFile
    /\ HlInit
    /\ applyIn = NoCall /\ applyOut = NoCall
    /\ docIn \in [op : {"call"}, content : DocContents]
    /\ docOut = NoCall
    /\ wikiIn = NoCall /\ wikiOut = NoCall
    /\ ChIdle /\ TrIdle

\* a call of doc_utils.split_content_into_sections(content)
SplitDoc ==
    /\ docIn.op = "call"
    /\ docOut = NoCall
    /\ docOut' = [op |-> "split", sections |-> SplitContentIntoSections(docIn.content)]
    /\ UNCHANGED <<hlVars, applyIn, applyOut, docIn, wikiIn, wikiOut, chVars, trVars>>

NextDoc == SplitDoc

SpecDoc == InitDoc /\ [][NextDoc]_vars

(***************************************************************************)
(* wiki_utils.split_content_into_sections: split at lines that look like   *)
(* headers                                                                 *)
(***************************************************************************)
\* one element that stands for a word of HeaderMaxLen letters, so that
\* short contents have lines on both sides of the length test of line 478
LongWord == "a x 100"
HeaderMaxLen == 100

\* len() of a text with such words in it
RECURSIVE StrLen(_)
StrLen(s) ==
    IF s = <<>> THEN 0
    ELSE (IF Head(s) = LongWord THEN HeaderMaxLen ELSE 1) + StrLen(Tail(s))

\* the lines the content is made of: empty, blank, a word, a word with a
\* trailing blank, a sentence, a long line
WikiLines ==
    {<<>>, <<" ">>, <<"a">>, <<"a", " ">>, <<"a", ".">>, <<LongWord>>}

\* "\n".join(lines)
RECURSIVE JoinLines(_)
JoinLines(ls) ==
    IF ls = <<>> THEN <<>>
    ELSE IF Len(ls) = 1 THEN ls[1]
    ELSE ls[1] \o <<LineBreak>> \o JoinLines(Tail(ls))

WikiContents ==
    {JoinLines(ls) : ls \in UNION {[1..k -> WikiLines] : k \in 0..MaxWikiLines}}

\* the characters of a line
LineChars == {"a", " ", ".", LongWord}

\* content.split('\n'), line 472
RECURSIVE SplitLines(_)
SplitLines(s) ==
    IF Run(s, 1, LineChars) = Len(s) THEN <<s>>
    ELSE <<SubSeq(s, 1, Run(s, 1, LineChars))>>
         \o SplitLines(SubSeq(s, Run(s, 1, LineChars) + 2, Len(s)))

\* line 478: the line looks like a section header
LooksLikeHeader(line) ==
    /\ Strip(line) # <<>>
    /\ StrLen(Strip(line)) < HeaderMaxLen
    /\ Strip(line)[Len(Strip(line))] # "."

Introduction == <<"Introduction">>

WikiSection(title, content) == [title |-> title, content |-> content]

\* the loop body without the test of line 480
WikiStepAlwaysAppends(st, line) ==
    IF LooksLikeHeader(line)
    THEN [sections |-> Append(st.sections, st.current),
          current |-> WikiSection(Strip(line), <<>>)]
    ELSE [sections |-> st.sections,
          current |-> WikiSection(st.current.title,
                                  st.current.content \o line \o <<LineBreak>>)]

\* lines 476-490: one turn of the loop, on the sections so far and the
\* current section
WikiStep(st, line) ==
    IF LooksLikeHeader(line)
    THEN [sections |-> IF Strip(st.current.content) # <<>>
                       THEN Append(st.sections, st.current)
                       ELSE st.sections,
          current |-> WikiSection(Strip(line), <<>>)]
    ELSE [sections |-> st.sections,
          current |-> WikiSection(st.current.title,
                                  st.current.content \o line \o <<LineBreak>>)]

RECURSIVE WikiLoop(_, _)
WikiLoop(st, ls) ==
    IF ls = <<>> THEN st ELSE WikiLoop(WikiStep(st, Head(ls)), Tail(ls))

\* wiki_utils.split_content_into_sections(content), lines 458-496
WikiSplitContentIntoSections(s) ==
    IF s = <<>> THEN <<>>
    ELSE LET st == WikiLoop([sections |-> <<>>,
                             current |-> WikiSection(Introduction, <<>>)],
                            SplitLines(s))
         IN  IF Strip(st.current.content) # <<>>
             THEN Append(st.sections, st.current)
             ELSE st.sections

InitWiki ==
    /\ file = AbsentFile
    /\ HlInit
    /\ applyIn = NoCall /\ applyOut = NoCall
    /\ docIn = NoCall /\ docOut = NoCall
    /\ wikiIn \in [op : {"call"}, content : WikiContents]
    /\ wikiOut = NoCall
    /\ ChIdle /\ TrIdle

\* a call of wiki_utils.split_content_into_sections(content)
SplitWiki ==
    /\ wikiIn.op = "call"
    /\ wikiOut = NoCall
    /\ wikiOut' = [op |-> "split",
                   sections |-> WikiSplitContentIntoSections(wikiIn.content)]
    /\ UNCHANGED <<hlVars, applyIn, applyOut, docIn, docOut, wikiIn, chVars, trVars>>

NextWiki == SplitWiki

SpecWiki == InitWiki /\ [][NextWiki]_vars

(***************************************************************************)
(* wiki_utils.split_text_into_chunks: chunks for translation               *)
(***************************************************************************)
\* characters of the text: a letter, the end of a sentence, a blank
ChunkAlphabet == {"a", ".", " "}
SentenceEnd == {"."}

ChunkTexts == UNION {[1..k -> ChunkAlphabet] : k \in 0..MaxChunkText}

\* values of chunk_size small enough for sentences of these texts to be
\* longer
ChunkSizes == {2, 3}

\* re.split(r'(?<=[.!?])\s+', text), line 227, from position i on, cur
\* being the sentence read so far
RECURSIVE SentencesFrom(_, _, _)
SentencesFrom(s, i, cur) ==
    IF i > Len(s) THEN <<cur>>
    ELSE IF s[i] \in Whitespace /\ i > 1 /\ s[i - 1] \in SentenceEnd
         THEN <<cur>> \o SentencesFrom(s, i + Run(s, i, Whitespace), <<>>)
         ELSE SentencesFrom(s, i + 1, Append(cur, s[i]))

Sentences(s) == SentencesFrom(s, 1, <<>>)

\* str.split(): the words of s
RECURSIVE WordsFrom(_, _, _)
WordsFrom(s, i, cur) ==
    IF i > Len(s) THEN (IF cur = <<>> THEN <<>> ELSE <<cur>>)
    ELSE IF s[i] \in Whitespace
         THEN (IF cur = <<>> THEN <<>> ELSE <<cur>>) \o WordsFrom(s, i + 1, <<>>)
         ELSE WordsFrom(s, i + 1, Append(cur, s[i]))

Words(s) == WordsFrom(s, 1, <<>>)

\* lines 237-242: the words of a long sentence, on the chunks so far and
\* temp_chunk
RECURSIVE WordLoop(_, _, _)
WordLoop(st, ws, chunk_size) ==
    IF ws = <<>> THEN st
    ELSE WordLoop(
            IF Len(st.temp) + Len(Head(ws)) + 1 > chunk_size
            THEN [chunks |-> Append(st.chunks, Strip(st.temp)),
                  temp |-> Head(ws) \o <<" ">>]
            ELSE [chunks |-> st.chunks,
                  temp |-> st.temp \o Head(ws) \o <<" ">>],
            Tail(ws), chunk_size)

\* lines 234-245: a sentence longer than chunk_size, on the chunks so far
\* and current_chunk
LongSentence(st, sentence, chunk_size) ==
    LET w == WordLoop([chunks |-> st.chunks, temp |-> <<>>],
                      Words(sentence), chunk_size)
    IN  [chunks |-> w.chunks,
         current |-> IF Strip(w.temp) # <<>> THEN st.current \o w.temp
                     ELSE st.current]

\* lines 232-252: one turn of the loop over the sentences
SentenceStep(st, sentence, chunk_size) ==
    IF Len(sentence) > chunk_size THEN LongSentence(st, sentence, chunk_size)
    ELSE IF Len(st.current) + Len(sentence) > chunk_size
    THEN [chunks |-> Append(st.chunks, Strip(st.current)),
          current |-> sentence \o <<" ">>]
    ELSE [chunks |-> st.chunks, current |-> st.current \o sentence \o <<" ">>]

RECURSIVE SentenceLoop(_, _, _)
SentenceLoop(st, ss, chunk_size) ==
    IF ss = <<>> THEN st
    ELSE SentenceLoop(SentenceStep(st, Head(ss), chunk_size), Tail(ss), chunk_size)

\* split_text_into_chunks(text, chunk_size), lines 210-258
SplitTextIntoChunks(text, chunk_size) ==
    IF text = <<>> THEN <<>>
    ELSE LET st == SentenceLoop([chunks |-> <<>>, current |-> <<>>],
                                Sentences(text), chunk_size)
         IN  IF Strip(st.current) # <<>>
             THEN Append(st.chunks, Strip(st.current))
             ELSE st.chunks

InitChunks ==
    /\ file = AbsentFile
    /\ HlInit
    /\ applyIn = NoCall /\ applyOut = NoCall
    /\ docIn = NoCall /\ docOut = NoCall
    /\ wikiIn = NoCall /\ wikiOut = NoCall
    /\ chunkIn \in [op : {"call"}, text : ChunkTexts, chunk_size : ChunkSizes]
    /\ chunkOut = NoCall
    /\ TrIdle

\* a call of split_text_into_chunks(text, chunk_size)
SplitChunks ==
    /\ chunkIn.op = "call"
    /\ chunkOut = NoCall
    /\ chunkOut' = [op |-> "split",
                    chunks |-> SplitTextIntoChunks(chunkIn.text, chunkIn.chunk_size)]
    /\ UNCHANGED <<hlVars, applyIn, applyOut, docIn, docOut, wikiIn, wikiOut,
                   chunkIn, trVars>>

NextChunks == SplitChunks

SpecChunks == InitChunks /\ [][NextChunks]_vars

(***************************************************************************)
(* wiki_utils.translate_text: the chunks translated by a pool of workers   *)
(***************************************************************************)
\* the chunks split_text_into_chunks hands over; the empty chunk comes from
\* line 239 with a first word longer than chunk_size
ChunkPieces == {<<>>, <<"a">>, <<"b">>}

ChunkLists == UNION {[1..n -> ChunkPieces] : n \in 1..MaxChunks}

\* line 321: max_workers = min(12, total_chunks)
PoolSize == 12
MaxWorkers(total_chunks) == IF total_chunks < PoolSize THEN total_chunks ELSE PoolSize

\* the answer of the translation service for a text: another text
UpperChar(c) == IF c = "a" THEN "A" ELSE IF c = "b" THEN "B" ELSE c
Answer(text) == [i \in 1..Len(text) |-> UpperChar(text[i])]

\* basic_translate(text, ...), lines 11-34: the answer of the service, or
\* text itself when the request fails in any way
BasicTranslate(text) ==
    IF Strip(text) = <<>> THEN {text} ELSE {Answer(text), text}

Returns(value) == [kind |-> "returned", value |-> value]
Raises == [kind |-> "raised", value |-> <<>>]

\* translate_chunk(chunk, ...), lines 260-280: what a worker leaves in its
\* future; an exception of the worker itself stays in the future
TranslateChunk(chunk) ==
    IF Strip(chunk) = <<>> THEN {Returns(<<>>), Raises}
    ELSE {Returns(v) : v \in BasicTranslate(chunk)} \cup {Raises}

\* ' '.join(sorted_chunks), line 356
RECURSIVE JoinChunks(_)
JoinChunks(ss) ==
    IF ss = <<>> THEN <<>>
    ELSE IF Len(ss) = 1 THEN ss[1]
    ELSE ss[1] \o <<" ">> \o JoinChunks(Tail(ss))

\* chunk_results.get(i, chunks[i]), line 355
GetResult(results, i, default) ==
    IF i \in DOMAIN results THEN results[i] ELSE default

\* a result stored under the position at which its future completed
StoreResultByArrival(results, chunk_index, arrival, value) ==
    (arrival :> value) @@ results

\* chunk_results[chunk_index] = ..., lines 342 and 352; arrival is the i of
\* line 334
StoreResult(results, chunk_index, arrival, value) ==
    (chunk_index :> value) @@ results

\* a future: not yet run, run by a worker, finished with an outcome, handed
\* to the loop of line 334 as the at-th one
Queued == [state |-> "queued", outcome |-> Raises, at |-> 0]

InState(s) == {i \in 1..Len(futures) : futures[i].state = s}

TotalChunks == Len(translateIn.chunks)

InitTranslate ==
    /\ file = AbsentFile
    /\ HlInit
    /\ applyIn = NoCall /\ applyOut = NoCall
    /\ docIn = NoCall /\ docOut = NoCall
    /\ wikiIn = NoCall /\ wikiOut = NoCall
    /\ ChIdle
    /\ translateIn \in [op : {"call"}, chunks : ChunkLists]
    /\ futures = <<>>
    /\ chunkResults = <<>>
    /\ translateOut = NoCall

\* lines 328-331: executor.submit(translate_chunk, chunk, ...) of the next
\* chunk
ExecutorSubmit ==
    /\ translateIn.op = "call"
    /\ Len(futures) < TotalChunks
    /\ futures' = Append(futures, Queued)
    /\ UNCHANGED <<hlVars, applyIn, applyOut, docIn, docOut, wikiIn, wikiOut,
                   chVars, translateIn, chunkResults, translateOut>>

\* a free worker of the pool takes the oldest task of the queue
WorkerStart(i) ==
    /\ i \in InState("queued")
    /\ \A j \in InState("queued") : i <= j
    /\ Cardinality(InState("running")) < MaxWorkers(TotalChunks)
    /\ futures' = [futures EXCEPT ![i].state = "running"]
    /\ UNCHANGED <<hlVars, applyIn, applyOut, docIn, docOut, wikiIn, wikiOut,
                   chVars, translateIn, chunkResults, translateOut>>

\* the worker ends translate_chunk(chunks[i], ...)
WorkerFinish(i, outcome) ==
    /\ i \in InState("running")
    /\ outcome \in TranslateChunk(translateIn.chunks[i])
    /\ futures' = [futures EXCEPT ![i].state = "done", ![i].outcome = outcome]
    /\ UNCHANGED <<hlVars, applyIn, applyOut, docIn, docOut, wikiIn, wikiOut,
                   chVars, translateIn, chunkResults, translateOut>>

\* lines 334-352: as_completed hands over a finished future, whose result
\* or, if it raises, whose chunk is stored
Collect(i) ==
    /\ Len(futures) = TotalChunks
    /\ translateOut = NoCall
    /\ i \in InState("done")
    /\ LET arrival == Cardinality(InState("collected")) + 1
           value == IF futures[i].outcome.kind = "returned"
                    THEN futures[i].outcome.value
                    ELSE translateIn.chunks[i]
       IN  /\ chunkResults' = StoreResult(chunkResults, i, arrival, value)
           /\ futures' = [futures EXCEPT ![i].state = "collected",
                                         ![i].at = arrival]
    /\ UNCHANGED <<hlVars, applyIn, applyOut, docIn, docOut, wikiIn, wikiOut,
                   chVars, translateIn, translateOut>>

\* lines 355-362: after the last future, the results by index, joined
Return ==
    /\ translateIn.op = "call"
    /\ translateOut = NoCall
    /\ Len(futures) = TotalChunks
    /\ InState("collected") = 1..TotalChunks
    /\ LET sorted_chunks == [i \in 1..TotalChunks |->
                                GetResult(chunkResults, i, translateIn.chunks[i])]
       IN  translateOut' = [op |-> "returned",
                            sorted_chunks |-> sorted_chunks,
                            result |-> JoinChunks(sorted_chunks)]
    /\ UNCHANGED <<hlVars, applyIn, applyOut, docIn, docOut, wikiIn, wikiOut,
                   chVars, translateIn, futures, chunkResults>>

NextTranslate ==
    \/ ExecutorSubmit
    \/ \E i \in 1..TotalChunks : WorkerStart(i)
    \/ \E i \in 1..TotalChunks :
          \E outcome \in TranslateChunk(translateIn.chunks[i]) : WorkerFinish(i, outcome)
    \/ \E i \in 1..TotalChunks : Collect(i)
    \/ Return

SpecTranslate == InitTranslate /\ [][NextTranslate]_vars

(***************************************************************************)
(* Properties of apply_highlights_to_text                                  *)
(***************************************************************************)
\* the call of apply_highlights_to_text has returned a text
Applied == applyOut.op = "apply" /\ applyOut.status = "ok"

IsMark(c) == c \in {OpenMark, CloseMark}

\* the text with the mark delimiters taken out
Unmark(s) == SelectSeq(s, LAMBDA c : ~IsMark(c))

\* number of delimiters c among the first i elements of s
CountIn(s, c, i) == Cardinality({k \in 1..i : s[k] = c})

\* element i of s lies between an opening delimiter and its closing one
InsideMark(s, i) == CountIn(s, OpenMark, i - 1) > CountIn(s, CloseMark, i - 1)

\* an opening delimiter stands inside a marked span
NestedMark(s) == \E i \in 1..Len(s) : s[i] = OpenMark /\ InsideMark(s, i)

\* the characters of h stand at position i of s, in either case
OccursAt(s, h, i) ==
    /\ i + Len(h) - 1 <= Len(s)
    /\ \A k \in 1..Len(h) : LowerChar(s[i + k - 1]) = LowerChar(h[k])

\* h matches somewhere in s as the pattern of line 115 does
MatchesIn(s, h) == \E i \in 1..Len(s) : MatchesAt(s, h, i)

\* h has no backslash: the replacement template is h itself
Plain(h) == \A k \in 1..Len(h) : h[k] # "\\"

\* C12: when the highlights are two plain texts, the shorter contained in
\* the longer, and the longer matches in the text, no mark delimiter of the
\* output stands inside another mark.
C12_NoNestedMark ==
    (/\ Applied
     /\ Len(applyIn.highlights) = 2
     /\ \E i, j \in 1..2 :
          LET short == applyIn.highlights[i].text
              long == applyIn.highlights[j].text
          IN  /\ Plain(short) /\ Plain(long)
              /\ short # long
              /\ IsSubstring(short, long)
              /\ MatchesIn(applyIn.text, long))
        => ~NestedMark(applyOut.text)

\* no letter or digit stands right before an opening delimiter or right
\* after a closing one
MarksAtWordBoundaries(s) ==
    \A i \in 1..Len(s) :
        /\ s[i] = OpenMark => (i = 1 \/ s[i - 1] \notin Alnum)
        /\ s[i] = CloseMark => (i = Len(s) \/ s[i + 1] \notin Alnum)

\* every text of the list goes through re.sub (line 117), none through the
\* literal replacement of line 125
AllAnchored(highlights) ==
    \A i \in 1..Len(highlights) : Template(highlights[i].text).status = "ok"

RECURSIVE Unexpand(_)
Unexpand(s) ==
    IF s = <<>> THEN <<>>
    ELSE IF Head(s) = Bel THEN <<"\\", "a">> \o Unexpand(Tail(s))
    ELSE <<Head(s)>> \o Unexpand(Tail(s))

\* the characters of the output in order, delimiters taken out, each with
\* whether it stood inside a marked span
Aligned(s) ==
    LET u == Unexpand(s)
        keep == SelectSeq([i \in 1..Len(u) |-> i], LAMBDA i : ~IsMark(u[i]))
    IN  [k \in 1..Len(keep) |-> [c |-> u[keep[k]], inside |-> InsideMark(u, keep[k])]]

\* C14: the output is the input with spans wrapped in delimiters: it has
\* the input's characters position by position, and every character outside
\* the marked spans is the input's character, unchanged.
C14_OutsideUnchanged ==
    Applied =>
        /\ Len(Aligned(applyOut.text)) = Len(applyIn.text)
        /\ \A k \in 1..Len(applyIn.text) :
              IF Aligned(applyOut.text)[k].inside
              THEN LowerChar(Aligned(applyOut.text)[k].c) = LowerChar(applyIn.text[k])
              ELSE Aligned(applyOut.text)[k].c = applyIn.text[k]

\* a span was marked between two stretches of text that were not
C14_Witness ==
    /\ Applied
    /\ Len(applyOut.text) >= 5
    /\ \E i \in 2..(Len(applyOut.text) - 3) :
          /\ applyOut.text[i] = OpenMark
          /\ ~InsideMark(applyOut.text, i)
          /\ applyOut.text[Len(applyOut.text)] # CloseMark

\* C15: with no highlights or with an empty text the call returns the text
\* as it was given, and so does the page for an article without highlights.
C15_EmptyUnchanged ==
    (/\ applyOut.op \in {"apply", "show"}
     /\ (applyIn.highlights = <<>> \/ applyIn.text = <<>>))
        => applyOut.status = "ok" /\ applyOut.text = applyIn.text

C15_Witness ==
    /\ applyOut.op = "apply"
    /\ applyIn.highlights = <<>>
    /\ applyIn.text # <<>>
    /\ applyOut.text = applyIn.text

\* C16: the characters inside the delimiters are the characters of the
\* input at the match, so the output without its delimiters is the input.
C16_OriginalCase ==
    Applied => Unmark(applyOut.text) = applyIn.text

\* the records without those whose text an earlier record has
RECURSIVE Distinct(_)
Distinct(highlights) ==
    IF highlights = <<>> THEN <<>>
    ELSE LET front == SubSeq(highlights, 1, Len(highlights) - 1)
             last == highlights[Len(highlights)]
         IN  IF \E i \in 1..Len(front) : front[i].text = last.text
             THEN Distinct(front)
             ELSE Distinct(front) \o <<last>>

\* C18: the output for a record sequence is the output for the sequence
\* with the records of repeated text removed.
C18_DuplicatesIgnored ==
    applyOut.op = "apply" =>
        /\ applyOut.status =
              ApplyHighlightsToText(applyIn.text, Distinct(applyIn.highlights)).status
        /\ applyOut.text =
              ApplyHighlightsToText(applyIn.text, Distinct(applyIn.highlights)).text

\* C19: the call returns a text for every text and every list of records.
C19_NeverRaises ==
    applyOut.op = "apply" => applyOut.status = "ok"

(***************************************************************************)
(* Properties of doc_utils.split_content_into_sections                     *)
(***************************************************************************)
TitlesAndContents(sections) ==
    [i \in 1..Len(sections) |->
        [title |-> sections[i].title, content |-> sections[i].content]]

\* The sections the claim describes: the text before the first heading,
\* if it is not empty, then for each heading its title and the text from
\* its end to the next heading; contents without surrounding whitespace,
\* as in the claim's example.
ClaimedSections(s) ==
    LET hs == Headings(s)
        before == IF hs = <<>> THEN s ELSE Slice(s, 1, hs[1].pos)
    IN  (IF Strip(before) # <<>>
         THEN <<[title |-> None, content |-> Strip(before)]>>
         ELSE <<>>)
        \o [i \in 1..Len(hs) |->
              [title |-> hs[i].title,
               content |-> Strip(Slice(s, hs[i].end,
                                 IF i < Len(hs) THEN hs[i + 1].pos ELSE Len(s) + 1))]]

\* C17 as stated: for every content the split returns the untitled leading
\* section, present only if the text before the first heading is not empty,
\* followed by one section per heading.
C17_HeadingSplitAlways ==
    docOut.op = "split"
        => TitlesAndContents(docOut.sections) = ClaimedSections(docIn.content)

\* C17, amended: for content with at least one heading the split returns
\* the sections the claim describes; for content without a heading it
\* returns one untitled section holding the content as given, empty or not.
C17_HeadingSplit ==
    docOut.op = "split"
        => TitlesAndContents(docOut.sections) =
              IF Headings(docIn.content) = <<>>
              THEN <<[title |-> None, content |-> docIn.content]>>
              ELSE ClaimedSections(docIn.content)

\* text, a titled heading and text after it: two sections
C17_Witness ==
    /\ docOut.op = "split"
    /\ Len(docOut.sections) = 2
    /\ docOut.sections[1].title = None
    /\ docOut.sections[2].title = <<"a">>
    /\ docOut.sections[2].content # <<>>

(***************************************************************************)
(* Properties of wiki_utils.split_content_into_sections                    *)
(***************************************************************************)
\* C20: every section the split returns has content that is not empty and
\* not only whitespace, and the empty content gives no section at all.
C20_NoEmptySection ==
    wikiOut.op = "split"
        => /\ \A i \in 1..Len(wikiOut.sections) :
                  Strip(wikiOut.sections[i].content) # <<>>
           /\ wikiIn.content = <<>> => wikiOut.sections = <<>>

\* header lines that follow each other and a header line at the end, in a
\* content that has a section
C20_Witness ==
    /\ wikiOut.op = "split"
    /\ wikiOut.sections # <<>>
    /\ \E i \in 1..(Len(SplitLines(wikiIn.content)) - 1) :
          /\ LooksLikeHeader(SplitLines(wikiIn.content)[i])
          /\ LooksLikeHeader(SplitLines(wikiIn.content)[i + 1])
    /\ LooksLikeHeader(SplitLines(wikiIn.content)[Len(SplitLines(wikiIn.content))])
    /\ \A i \in 1..Len(wikiOut.sections) :
          Strip(wikiOut.sections[i].content) # <<>>

\* the lines of ls that are not blank, each without surrounding whitespace
NonBlank(ls) ==
    LET keep == SelectSeq(ls, LAMBDA l : Strip(l) # <<>>)
    IN  [i \in 1..Len(keep) |-> Strip(keep[i])]

\* the lines a reader of the sections gets: for each section its title,
\* unless it is the "Introduction" the split supplied, then the lines of
\* its content
RECURSIVE SectionLines(_)
SectionLines(sections) ==
    IF sections = <<>> THEN <<>>
    ELSE (IF Head(sections).title = Introduction THEN <<>>
          ELSE <<Head(sections).title>>)
         \o NonBlank(SplitLines(Head(sections).content))
         \o SectionLines(Tail(sections))

\* C23: the titles and content lines of the sections returned, in order,
\* are the non-blank lines of the content, in order: no line is lost.
C23_NoLineLost ==
    wikiOut.op = "split"
        => SectionLines(wikiOut.sections) = NonBlank(SplitLines(wikiIn.content))

(***************************************************************************)
(* Frame of save_highlight across articles                                 *)
(***************************************************************************)
\* C22: when all callers have returned and no two successful submits were
\* for the same article, every article still has the record that was
\* submitted for it: a submit for one article drops no record of another.
C22_OtherIdentitiesKept ==
    (/\ AllIdle
     /\ \A a, b \in acked : a # b => a.id # b.id)
        => \A a \in acked :
              \E i \in 1..Len(Stored(file, a.id)) : Stored(file, a.id)[i] = a.rec

\* the same for calls that do not overlap: a whole submit for one article
\* leaves what load returns for every other article as it was
C22_SequentialFrame ==
    [][\A id \in ArticleIds, ctx \in Contexts, in \in Texts \X Sources :
          Submit(id, in[1], ctx, in[2])
              => \A other \in ArticleIds \ {id} :
                    Stored(file', other) = Stored(file, other)]_vars

(***************************************************************************)
(* Properties of split_text_into_chunks                                    *)
(***************************************************************************)
\* the words of the chunks, read chunk after chunk
RECURSIVE AllWords(_)
AllWords(chunks) ==
    IF chunks = <<>> THEN <<>> ELSE Words(Head(chunks)) \o AllWords(Tail(chunks))

\* C24: the words of the chunks returned, read chunk after chunk, are the
\* words of the text in their order.
C24_WordOrderKept ==
    chunkOut.op = "split" => AllWords(chunkOut.chunks) = Words(chunkIn.text)

(***************************************************************************)
(* Properties of translate_text                                            *)
(***************************************************************************)
\* what chunk i contributes: the text its worker returned, or the chunk
\* itself if the worker raised
PerChunkResult(i) ==
    IF futures[i].outcome.kind = "returned" THEN futures[i].outcome.value
    ELSE translateIn.chunks[i]

\* C21: the text returned is the results of the chunks joined in the order
\* of the chunks, whatever the order in which the workers ended: position i
\* holds what chunk i contributed, every position is filled, and a chunk
\* whose worker raised contributes its original text.
C21_IndexOrder ==
    translateOut.op = "returned"
        => /\ Len(translateOut.sorted_chunks) = TotalChunks
           /\ \A i \in 1..TotalChunks :
                 translateOut.sorted_chunks[i] = PerChunkResult(i)
           /\ translateOut.result =
                 JoinChunks([i \in 1..TotalChunks |-> PerChunkResult(i)])

\* the call has returned, a later chunk was handed over before an earlier
\* one with another result, and a chunk whose worker raised is in the output
C21_Witness ==
    /\ translateOut.op = "returned"
    /\ \E i, j \in 1..TotalChunks :
          /\ i < j
          /\ futures[i].at > futures[j].at
          /\ PerChunkResult(i) # PerChunkResult(j)
    /\ \E k \in 1..TotalChunks :
          /\ futures[k].outcome.kind = "raised"
          /\ translateIn.chunks[k] # <<>>
          /\ translateOut.sorted_chunks[k] = translateIn.chunks[k]

====
